---- MODULE Spec2Model ----
(***************************************************************************)
(* The two API entry points of the issue tracker:                          *)
(*   pages/api/history.ts   backfill of one Day record per calendar day    *)
(*   pages/api/populate.ts  one snapshot Day record for today              *)
(* A date is a day number, a timestamp is a tick (TicksPerDay per day).     *)
(* An optional value (null / undefined in the source) is <<>> or <<x>>.     *)
(***************************************************************************)
EXTENDS Integers, Sequences, FiniteSets, TLC

VARIABLES now, db, call

vars == <<now, db, call>>

\* ---------------------------------------------------------------- bounds
NumInv == 2          \* invocations that may run concurrently
MaxDay == 3          \* latest day "today" may be
MaxIssues == 2       \* issues handed to the aggregator on its own
MaxPageLen == 2      \* items the tracker puts on one page
MaxLimit == 2        \* largest page_limit a request carries
MaxUpstream == 3     \* pages that are not empty the tracker holds for one fetch

\* ---------------------------------------------------------------- values
None == <<>>
Some(x) == <<x>>
Coalesce(x, d) == IF x = None THEN d ELSE x[1]

TicksPerDay == 2
Stamp(day, off) == day * TicksPerDay + off
isoDate(t) == t \div TicksPerDay

StartDay == 1
FIRST_COMMIT_DATE == Stamp(StartDay, 0)
SECRET == "secret"
DefaultPageLimit == 2

Inv == 1 .. NumInv

\* eachDayUntilToday(start): one Date per day from start through today.
eachDayUntilToday(start, clock) ==
  [k \in 1 .. (isoDate(clock) - isoDate(start) + 1) |-> start + (k - 1) * TicksPerDay]

\* A JS object with string keys: the keys in insertion order, and the values.
EmptyObject == [keys |-> <<>>, val |-> <<>>]
InRange(seq, x) == \E k \in 1 .. Len(seq) : seq[k] = x
SetEntry(obj, k, v) ==
  [keys |-> IF InRange(obj.keys, k) THEN obj.keys ELSE Append(obj.keys, k),
   val  |-> [x \in DOMAIN obj.val \cup {k} |-> IF x = k THEN v ELSE obj.val[x]]]
RECURSIVE ObjectFromEntries(_)
ObjectFromEntries(entries) ==
  IF entries = <<>> THEN EmptyObject
  ELSE LET n == Len(entries)
           e == entries[n]
       IN SetEntry(ObjectFromEntries(SubSeq(entries, 1, n - 1)), e[1], e[2])

\* the range taken from the day after the first commit
InitialDatesLate(clock) ==
  LET ds == eachDayUntilToday(FIRST_COMMIT_DATE + TicksPerDay, clock)
  IN ObjectFromEntries([k \in 1 .. Len(ds) |->
                          <<isoDate(ds[k]), [totalOpened |-> 0, totalClosed |-> 0]>>])
\* history.ts 36-40
InitialDates(clock) ==
  LET ds == eachDayUntilToday(FIRST_COMMIT_DATE, clock)
  IN ObjectFromEntries([k \in 1 .. Len(ds) |->
                          <<isoDate(ds[k]), [totalOpened |-> 0, totalClosed |-> 0]>>])

\* the scan stops at the first issue created after the date, as if the list were sorted
RECURSIVE IssuesOpenedSorted(_, _)
IssuesOpenedSorted(issues, date) ==
  IF issues = <<>> \/ isoDate(Head(issues).created_at) > date THEN <<>>
  ELSE IF isoDate(Head(issues).created_at) = date
       THEN <<Head(issues)>> \o IssuesOpenedSorted(Tail(issues), date)
       ELSE IssuesOpenedSorted(Tail(issues), date)
\* history.ts 45-50
IssuesOpened(issues, date) ==
  SelectSeq(issues, LAMBDA i : isoDate(i.created_at) = date)
IssuesClosed(issues, date) ==
  SelectSeq(issues, LAMBDA i : i.closed_at # None /\ isoDate(i.closed_at[1]) = date)

\* the closures of the date alone; the closures are never taken off the open count
ClosedOfTheDay(acc, issues, date) == Len(IssuesClosed(issues, date))
OpenedNeverClosed(acc, issues, date) == acc + Len(IssuesOpened(issues, date))
\* history.ts 52-58: the two accumulators after the pass over one date
NextClosedAccumulator(acc, issues, date) == acc + Len(IssuesClosed(issues, date))
NextOpenedAccumulator(acc, issues, date) ==
  LET added == IF Len(IssuesOpened(issues, date)) # 0
               THEN acc + Len(IssuesOpened(issues, date)) ELSE acc
  IN added - Len(IssuesClosed(issues, date))

\* history.ts 36-61: the aggregation as a function of the issues and the clock
RECURSIVE AccumulateFrom(_, _, _, _, _)
AccumulateFrom(dates, issues, cursor, openedAccumulator, closedAccumulator) ==
  IF cursor > Len(dates.keys) THEN dates
  ELSE LET date == dates.keys[cursor]
           closedAcc == NextClosedAccumulator(closedAccumulator, issues, date)
           openedAcc == NextOpenedAccumulator(openedAccumulator, issues, date)
           day == [totalOpened |-> dates.val[date].totalOpened + openedAcc,
                   totalClosed |-> dates.val[date].totalClosed + closedAcc]
       IN AccumulateFrom(SetEntry(dates, date, day), issues, cursor + 1, openedAcc, closedAcc)
Aggregate(issues, clock) == AccumulateFrom(InitialDates(clock), issues, 1, 0, 0)

\* ---------------------------------------------------------------- the datastore
\* prisma.day.create: the date is unique; a second record of a date is P2002.
DayExists(store, date) == \E r \in store : r.date = date
CreateDay(store, rec) ==
  IF DayExists(store, rec.date) THEN [store |-> store, error |-> Some("P2002")]
  ELSE [store |-> store \cup {rec}, error |-> None]
\* the creates of a list, one after the other, up to the first that fails
RECURSIVE CreateEach(_, _)
CreateEach(store, recs) ==
  IF recs = <<>> THEN [store |-> store, error |-> None]
  ELSE LET r == CreateDay(store, Head(recs))
       IN IF r.error # None THEN r ELSE CreateEach(r.store, Tail(recs))
\* the records of dates already stored are skipped without an error
TransactionSkipDuplicates(store, recs) ==
  [store |-> store \cup {recs[k] : k \in {m \in 1 .. Len(recs) : ~DayExists(store, recs[m].date)}},
   error |-> None]
\* prisma.$transaction: all of the creates, or none of them
Transaction(store, recs) ==
  LET r == CreateEach(store, recs)
  IN IF r.error # None THEN [store |-> store, error |-> r.error] ELSE r

\* history.ts 68-74
DatesEntries(dates) ==
  [k \in 1 .. Len(dates.keys) |->
     [date |-> dates.keys[k],
      totalOpened |-> dates.val[dates.keys[k]].totalOpened,
      totalClosed |-> dates.val[dates.keys[k]].totalClosed]]
\* the stored records of the batch's dates are replaced
SaveDaysUpsert(store, dates) ==
  LET recs == DatesEntries(dates)
      batch == {recs[k] : k \in 1 .. Len(recs)}
  IN [store |-> {r \in store : \A b \in batch : b.date # r.date} \cup batch,
      error |-> None]
\* the creates are awaited one by one, outside a transaction
SaveDaysOneByOne(store, dates) == CreateEach(store, DatesEntries(dates))
SaveDays(store, dates) == Transaction(store, DatesEntries(dates))

\* every error is answered as an internal error
CatchAllInternal(error) ==
  [status |-> 500, body |-> [message |-> "Internal server error"]]
\* history.ts 81-87, populate.ts 58-64
Catch(error) ==
  IF error = "P2002" THEN [status |-> 400, body |-> [message |-> "Already exists"]]
  ELSE [status |-> 500, body |-> [message |-> "Internal server error"]]

\* history.ts 22, 26; populate.ts 25, 29
MethodAllowed(req) == req.method = "POST"
AuthorizedAlways(req) == TRUE
Authorized(req) == SECRET = req.secret
\* history.ts 33
HardLimitPage(req) == Some(Coalesce(req.page_limit, DefaultPageLimit))
SkipSaveNever(req) == FALSE
\* history.ts 64
SkipSave(req) == req.skip_save

\* history.ts 104, 106: a hardLimit of None is Infinity
HardLimit(options) == options.hardLimitPage
LoopConditionStrict(page, hardLimit) == hardLimit = None \/ page < hardLimit[1]
LoopConditionOneMore(page, hardLimit) == hardLimit = None \/ page <= hardLimit[1] + 1
LoopCondition(page, hardLimit) == hardLimit = None \/ page <= hardLimit[1]
\* the test is made on the page without its pull requests
PageHasIssues(issuesPage) == Len(SelectSeq(issuesPage, LAMBDA i : ~i.pull_request)) # 0
\* history.ts 116
PageHasItems(issuesPage) == Len(issuesPage) # 0
\* history.ts 121
FilterPage(issuesPage) == SelectSeq(issuesPage, LAMBDA i : ~i.pull_request)
\* history.ts 123-132
RECURSIVE UnshiftEach(_, _)
UnshiftEach(issues, issuesPage) ==
  IF issuesPage = <<>> THEN issues
  ELSE IF Head(issuesPage).pull_request THEN UnshiftEach(issues, Tail(issuesPage))
  ELSE UnshiftEach(<<[closed_at |-> Head(issuesPage).closed_at,
                      created_at |-> Head(issuesPage).created_at]>> \o issues,
                   Tail(issuesPage))
\* every item of the page is kept, pull requests too
RECURSIVE UnshiftAll(_, _)
UnshiftAll(issues, issuesPage) ==
  IF issuesPage = <<>> THEN issues
  ELSE UnshiftAll(<<[closed_at |-> Head(issuesPage).closed_at,
                     created_at |-> Head(issuesPage).created_at]>> \o issues,
                  Tail(issuesPage))
\* history.ts 121-132: what one non-empty page adds to the issues
AccumulatePage(issues, issuesPage) == UnshiftEach(issues, FilterPage(issuesPage))

\* ---------------------------------------------------------------- state
NoRequest == [kind |-> "none", method |-> "", secret |-> "",
              page_limit |-> None, skip_save |-> FALSE]
Idle ==
  [pc |-> "idle", req |-> NoRequest,
   page |-> 1, hardLimit |-> None, issues |-> <<>>,
   dates |-> EmptyObject, cursor |-> 1,
   openedAccumulator |-> 0, closedAccumulator |-> 0,
   data |-> None, res |-> None,
   got |-> <<>>, log |-> <<>>, seen |-> FALSE]

Ev(e, n) == [e |-> e, n |-> n]
Logged(c, e, n) == Append(c.log, Ev(e, n))

Set(i, c) == call' = [call EXCEPT ![i] = c]

\* ---------------------------------------------------------------- both handlers
Receive(i, reqs) ==
  /\ call[i].pc = "idle"
  /\ \E r \in reqs : Set(i, [call[i] EXCEPT !.pc = "method", !.req = r,
                                               !.seen = (db # {})])
  /\ UNCHANGED <<now, db>>

Respond(c, status, body) ==
  [c EXCEPT !.pc = "done", !.res = Some([status |-> status, body |-> body])]
Throw(c, error) ==
  LET r == Catch(error) IN Respond(c, r.status, r.body)

CheckMethod(i) ==
  /\ call[i].pc = "method"
  /\ IF MethodAllowed(call[i].req)
     THEN Set(i, [call[i] EXCEPT !.pc = "secret", !.log = Logged(call[i], "method_ok", 0)])
     ELSE Set(i, Respond(call[i], 405, [message |-> "Method not allowed"]))
  /\ UNCHANGED <<now, db>>

CheckSecret(i) ==
  /\ call[i].pc = "secret"
  /\ IF Authorized(call[i].req)
     THEN Set(i, [call[i] EXCEPT
                    !.pc = IF call[i].req.kind = "history" THEN "getIssues" ELSE "graphql",
                    !.log = Logged(call[i], "secret_ok", 0)])
     ELSE Set(i, Respond(call[i], 401, [message |-> "Unauthorized"]))
  /\ UNCHANGED <<now, db>>

\* ---------------------------------------------------------------- history.ts
\* 30-34, 100-104: the call of getIssues
GetIssues(i) ==
  /\ call[i].pc = "getIssues"
  /\ Set(i, [call[i] EXCEPT !.pc = "while", !.page = 1, !.issues = <<>>,
               !.hardLimit = HardLimit([hardLimitPage |-> HardLimitPage(call[i].req)])])
  /\ UNCHANGED <<now, db>>

\* 106-114: the loop test; the request of the page, or the return of the issues
WhileLoop(i) ==
  /\ call[i].pc = "while"
  /\ IF LoopCondition(call[i].page, call[i].hardLimit)
     THEN Set(i, [call[i] EXCEPT !.pc = "listForRepo",
                    !.log = Logged(call[i], "request", call[i].page)])
     ELSE Set(i, [call[i] EXCEPT !.pc = "dates"])
  /\ UNCHANGED <<now, db>>

\* the empty page does not leave the loop
PageArrivesNoBreak(i, pages) ==
  /\ call[i].pc = "listForRepo"
  /\ \E issuesPage \in pages \cup {<<>>} :
       Set(i, [call[i] EXCEPT !.got = Append(call[i].got, issuesPage),
                 !.log = Logged(call[i], "page", call[i].page),
                 !.pc = "while",
                 !.issues = AccumulatePage(call[i].issues, issuesPage),
                 !.page = call[i].page + 1])
  /\ UNCHANGED <<now, db>>

\* 115-140: the tracker answers with a page
PageArrives(i, pages) ==
  /\ call[i].pc = "listForRepo"
  /\ \E issuesPage \in pages \cup {<<>>} :
       LET c == [call[i] EXCEPT !.got = Append(call[i].got, issuesPage),
                                !.log = Logged(call[i], "page", call[i].page)]
       IN IF PageHasItems(issuesPage)
          THEN Set(i, [c EXCEPT !.pc = "while",
                         !.issues = AccumulatePage(call[i].issues, issuesPage),
                         !.page = call[i].page + 1])
          ELSE Set(i, [c EXCEPT !.pc = "dates"])
  /\ UNCHANGED <<now, db>>

\* the rejection is swallowed and the loop ends as on an empty page
PageFailsSwallowed(i) ==
  /\ call[i].pc = "listForRepo"
  /\ Set(i, [call[i] EXCEPT !.pc = "dates", !.log = Logged(call[i], "failed", call[i].page)])
  /\ UNCHANGED <<now, db>>

\* 107-115, 79-88: the request fails; the rejection reaches the handler's catch
PageFails(i) ==
  /\ call[i].pc = "listForRepo"
  /\ Set(i, Throw([call[i] EXCEPT !.log = Logged(call[i], "failed", call[i].page)],
                  "RequestError"))
  /\ UNCHANGED <<now, db>>

\* 36-43
BuildDates(i) ==
  /\ call[i].pc = "dates"
  /\ Set(i, [call[i] EXCEPT !.pc = "for", !.dates = InitialDates(now), !.cursor = 1,
               !.openedAccumulator = 0, !.closedAccumulator = 0])
  /\ UNCHANGED <<now, db>>

\* 44-61: one pass of the loop body, for the date under the cursor
AccumulateDay(i) ==
  /\ call[i].pc = "for"
  /\ call[i].cursor <= Len(call[i].dates.keys)
  /\ LET c == call[i]
         date == c.dates.keys[c.cursor]
         closedAcc == NextClosedAccumulator(c.closedAccumulator, c.issues, date)
         openedAcc == NextOpenedAccumulator(c.openedAccumulator, c.issues, date)
         day == [totalOpened |-> c.dates.val[date].totalOpened + openedAcc,
                 totalClosed |-> c.dates.val[date].totalClosed + closedAcc]
     IN Set(i, [c EXCEPT !.dates = SetEntry(c.dates, date, day),
                  !.openedAccumulator = openedAcc, !.closedAccumulator = closedAcc,
                  !.cursor = c.cursor + 1,
                  !.log = Logged(c, "day", date)])
  /\ UNCHANGED <<now, db>>

\* the loop is left before the last date
EndForEarly(i) ==
  /\ call[i].pc = "for"
  /\ Set(i, [call[i] EXCEPT !.pc = "save"])
  /\ UNCHANGED <<now, db>>

\* 61-64: the loop is over
EndFor(i) ==
  /\ call[i].pc = "for"
  /\ call[i].cursor > Len(call[i].dates.keys)
  /\ Set(i, [call[i] EXCEPT !.pc = "save"])
  /\ UNCHANGED <<now, db>>

\* 64-88: skip, or the transaction of the creates; then the response
Save(i) ==
  /\ call[i].pc = "save"
  /\ IF SkipSave(call[i].req)
     THEN /\ Set(i, Respond(call[i], 200, call[i].dates))
          /\ UNCHANGED db
     ELSE LET r == SaveDays(db, call[i].dates)
              c == [call[i] EXCEPT !.log = Logged(call[i], "write", 0)]
          IN /\ db' = r.store
             /\ IF r.error = None
                THEN Set(i, Respond(c, 200, c.dates))
                ELSE Set(i, Throw(c, r.error[1]))
  /\ UNCHANGED now

\* ---------------------------------------------------------------- populate.ts
\* 33-46: the query of the totals is sent
Graphql(i) ==
  /\ call[i].pc = "graphql"
  /\ Set(i, [call[i] EXCEPT !.pc = "totals", !.log = Logged(call[i], "request", 0)])
  /\ UNCHANGED <<now, db>>

\* 35-46: the tracker's totals arrive
TotalsArrive(i, totals) ==
  /\ call[i].pc = "totals"
  /\ \E t \in totals :
       Set(i, [call[i] EXCEPT !.pc = "create", !.data = Some(t),
                 !.log = Logged(call[i], "page", 0)])
  /\ UNCHANGED <<now, db>>

\* 35, 56-65: the query fails
TotalsFail(i) ==
  /\ call[i].pc = "totals"
  /\ Set(i, Throw([call[i] EXCEPT !.log = Logged(call[i], "failed", 0)], "RequestError"))
  /\ UNCHANGED <<now, db>>

\* the two totals change places
TodayRecordSwapped(data, clock) ==
  [date |-> isoDate(clock),
   totalOpened |-> data.totalClosed, totalClosed |-> data.totalOpened]
\* 47-55: the record of today
TodayRecord(data, clock) ==
  [date |-> isoDate(clock),
   totalOpened |-> data.totalOpened, totalClosed |-> data.totalClosed]

CreateToday(i) ==
  /\ call[i].pc = "create"
  /\ LET rec == TodayRecord(call[i].data[1], now)
         r == CreateDay(db, rec)
         c == [call[i] EXCEPT !.log = Logged(call[i], "write", 0)]
     IN /\ db' = r.store
        /\ IF r.error = None
           THEN Set(i, Respond(c, 200, rec))
           ELSE Set(i, Throw(c, r.error[1]))
  /\ UNCHANGED now

\* ---------------------------------------------------------------- inputs
SeqsUpTo(S, n) == UNION {[1 .. k -> S] : k \in 0 .. n}
Clocks == {Stamp(d, o) : d \in StartDay .. MaxDay, o \in 0 .. TicksPerDay - 1}
\* the clock of an invocation: late on the day after the first commit
Now == Stamp(StartDay + 1, TicksPerDay - 1)

\* an issue is created early on a day and, if closed, closed late on that day or a later one
ClosedAts(from, today) == {None} \cup {Some(Stamp(d, TicksPerDay - 1)) : d \in from .. today}
IssuesUntil(today) ==
  {i \in [closed_at : ClosedAts(0, today), created_at : {Stamp(d, 0) : d \in 0 .. today}] :
     i.closed_at = None \/ i.closed_at[1] >= i.created_at}

\* what the tracker lists: issues and pull requests
Items(today) ==
  [created_at : {Stamp(StartDay, 0)}, closed_at : ClosedAts(today, today),
   pull_request : {FALSE}]
  \cup [created_at : {Stamp(StartDay, 0)}, closed_at : {Some(Stamp(today, TicksPerDay - 1))},
        pull_request : {TRUE}]
Pages(today) == SeqsUpTo(Items(today), MaxPageLen) \ {<<>>}

Methods == {"POST", "GET"}
Secrets == {SECRET, "wrong"}
HistoryRequests ==
  [kind : {"history"}, method : Methods, secret : Secrets,
   page_limit : {None} \cup {Some(n) : n \in 0 .. MaxLimit}, skip_save : BOOLEAN]
PopulateRequests ==
  [kind : {"populate"}, method : Methods, secret : Secrets,
   page_limit : {None}, skip_save : {FALSE}]
Requests == HistoryRequests \cup PopulateRequests
Totals == [totalOpened : 0 .. 1, totalClosed : 0 .. 1]

\* ---------------------------------------------------------------- one invocation
Init ==
  /\ now = Now
  /\ db = {}
  /\ call = [i \in Inv |-> Idle]

Next ==
  \/ Receive(1, Requests)
  \/ CheckMethod(1)
  \/ CheckSecret(1)
  \/ GetIssues(1)
  \/ WhileLoop(1)
  \/ PageArrives(1, Pages(isoDate(now)))
  \/ PageFails(1)
  \/ BuildDates(1)
  \/ AccumulateDay(1)
  \/ EndFor(1)
  \/ Save(1)
  \/ Graphql(1)
  \/ TotalsArrive(1, Totals)
  \/ TotalsFail(1)
  \/ CreateToday(1)

Spec == Init /\ [][Next]_vars

\* ---------------------------------------------------------------- the aggregator alone
AuthorizedHistory ==
  [kind |-> "history", method |-> "POST", secret |-> SECRET,
   page_limit |-> None, skip_save |-> TRUE]

InitAgg ==
  /\ now \in Clocks
  /\ db = {}
  /\ \E issues \in SeqsUpTo(IssuesUntil(isoDate(now)), MaxIssues) :
       call = [i \in Inv |->
                 IF i = 1 THEN [Idle EXCEPT !.pc = "dates", !.req = AuthorizedHistory,
                                            !.issues = issues]
                 ELSE Idle]

NextAgg ==
  \/ BuildDates(1)
  \/ AccumulateDay(1)
  \/ EndFor(1)

SpecAgg == InitAgg /\ [][NextAgg]_vars

\* ---------------------------------------------------------------- getIssues alone
\* One call of getIssues with any options; the tracker holds at most MaxUpstream pages
\* that are not empty, and every request is answered.
PagesLive ==
  LET issue == [created_at |-> Stamp(StartDay, 0), closed_at |-> None, pull_request |-> FALSE]
      pr == [created_at |-> Stamp(StartDay, 0), closed_at |-> None, pull_request |-> TRUE]
  IN {<<issue>>, <<pr>>, <<pr, issue>>}
Options == [hardLimitPage : {None} \cup {Some(n) : n \in 0 .. MaxLimit}]
Upstream(c) == IF Len(c.got) < MaxUpstream THEN PagesLive ELSE {}

InitLive ==
  /\ now = Now
  /\ db = {}
  /\ \E options \in Options :
       call = [i \in Inv |->
                 IF i = 1 THEN [Idle EXCEPT !.pc = "while", !.req = AuthorizedHistory,
                                            !.hardLimit = HardLimit(options)]
                 ELSE Idle]

NextLive ==
  \/ WhileLoop(1)
  \/ PageArrives(1, Upstream(call[1]))
  \/ PageFails(1)

SpecLive ==
  /\ InitLive
  /\ [][NextLive]_vars
  /\ WF_vars(WhileLoop(1))
  /\ WF_vars(PageArrives(1, Upstream(call[1])) \/ PageFails(1))

\* ---------------------------------------------------------------- concurrent invocations
\* Every invocation slot serves one request; the slots interleave at their awaits.
PagesC == {<<i>> : i \in {x \in Items(isoDate(Now)) : ~x.pull_request}}
HistoryRequestsC == {r \in HistoryRequests : r.page_limit = Some(1)}
RequestsC == HistoryRequestsC \cup PopulateRequests
TotalsC == {t \in Totals : t.totalClosed = 0}

InitC ==
  /\ now = Now
  /\ db = {}
  /\ call = [i \in Inv |-> Idle]

NextC ==
  \E i \in Inv :
    \/ Receive(i, RequestsC)
    \/ CheckMethod(i)
    \/ CheckSecret(i)
    \/ GetIssues(i)
    \/ WhileLoop(i)
    \/ PageArrives(i, PagesC)
    \/ PageFails(i)
    \/ BuildDates(i)
    \/ AccumulateDay(i)
    \/ EndFor(i)
    \/ Save(i)
    \/ Graphql(i)
    \/ TotalsArrive(i, TotalsC)
    \/ TotalsFail(i)
    \/ CreateToday(i)

SpecC == InitC /\ [][NextC]_vars

\* ---------------------------------------------------------------- the claims
DayOf(t) == isoDate(t)
Aggregated(c) == c.pc = "save"
Total(c, d) == c.dates.val[d]
Range(clock) == StartDay .. isoDate(clock)
\* the dates the accumulator loop has passed over, in the order of the passes
Visited(c) ==
  LET days == SelectSeq(c.log, LAMBDA e : e.e = "day")
  IN [k \in 1 .. Len(days) |-> days[k].n]

\* issues opened on or before d and not closed by the end of d; issues closed on or before d
OpenAsOf(issues, d) ==
  Cardinality({k \in DOMAIN issues :
                 /\ DayOf(issues[k].created_at) <= d
                 /\ \/ issues[k].closed_at = None
                    \/ DayOf(issues[k].closed_at[1]) > d})
ClosedAsOf(issues, d) ==
  Cardinality({k \in DOMAIN issues :
                 /\ issues[k].closed_at # None
                 /\ DayOf(issues[k].closed_at[1]) <= d})

\* C1: for every issue collection and every day d of the range, the aggregator stores
\* totalOpened(d) = the issues opened on or before d and still open at the end of d,
\* and totalClosed(d) = the issues closed on or before d.
C1_TotalsAreCounts ==
  \A i \in Inv :
    Aggregated(call[i]) =>
      \A d \in Range(now) :
        /\ Total(call[i], d).totalOpened = OpenAsOf(call[i].issues, d)
        /\ Total(call[i], d).totalClosed = ClosedAsOf(call[i].issues, d)

\* C2: for every issue collection, dates outside the range included, and every day of
\* the range, the totalOpened the aggregation produces is not negative.
C2_TotalOpenedNotNegative ==
  \A i \in Inv :
    Aggregated(call[i]) =>
      \A d \in Range(now) : Total(call[i], d).totalOpened >= 0

\* C3: the output has exactly one entry per calendar day of the range from the start
\* date to today; the accumulator loop passes over every date key once, in chronological
\* order, and the keys stay the same throughout.
DaySeq(clock) == [k \in 1 .. (isoDate(clock) - StartDay + 1) |-> StartDay + k - 1]
C3_OneEntryPerDay ==
  \A i \in Inv :
    call[i].pc \in {"for", "save"} =>
      /\ call[i].dates.keys = DaySeq(now)
      /\ DOMAIN call[i].dates.val = Range(now)
      /\ Visited(call[i]) = SubSeq(DaySeq(now), 1, call[i].cursor - 1)
      /\ Aggregated(call[i]) => Visited(call[i]) = DaySeq(now)
C3_Witness ==
  \E i \in Inv :
    /\ Aggregated(call[i])
    /\ Len(call[i].dates.keys) >= 2
    /\ Len(Visited(call[i])) = Len(call[i].dates.keys)

\* ---- the fetcher
History(c) == c.req.kind = "history"
Events(c, e) == SelectSeq(c.log, LAMBDA x : x.e = e)
HasEvent(c, e) == Len(Events(c, e)) > 0
Status(c) == c.res[1].status
Body(c) == c.res[1].body
RECURSIVE Flatten(_)
Flatten(pages) == IF pages = <<>> THEN <<>> ELSE Head(pages) \o Flatten(Tail(pages))
Reverse(seq) == [k \in 1 .. Len(seq) |-> seq[Len(seq) + 1 - k]]
\* the items of the raw pages that carry no pull_request marker
RawIssues(c) == SelectSeq(Flatten(c.got), LAMBDA x : ~x.pull_request)
RawPullRequests(c) == SelectSeq(Flatten(c.got), LAMBDA x : x.pull_request)
CountIn(seq, Test(_)) == Len(SelectSeq(seq, Test))
CreatedIn(seq, d) ==
  CountIn(seq, LAMBDA x : DayOf(x.created_at) \in StartDay .. d)
ClosedIn(seq, d) ==
  CountIn(seq, LAMBDA x : x.closed_at # None /\ DayOf(x.closed_at[1]) \in StartDay .. d)

\* C4: whatever raw pages the tracker returns, getIssues' result holds the items without
\* a pull_request marker and nothing else, and the day counts are those of the raw pages'
\* items without the marker: the pull requests add to no day's totals.
C4_PullRequestsLeftOut ==
  \A i \in Inv :
    History(call[i]) =>
      LET raw == RawIssues(call[i])
      IN /\ call[i].issues =
              Reverse([k \in 1 .. Len(raw) |->
                         [closed_at |-> raw[k].closed_at, created_at |-> raw[k].created_at]])
         /\ Aggregated(call[i]) =>
              \A d \in Range(now) :
                /\ Total(call[i], d).totalClosed = ClosedIn(raw, d)
                /\ Total(call[i], d).totalOpened = CreatedIn(raw, d) - ClosedIn(raw, d)
C4_Witness ==
  \E i \in Inv :
    /\ Aggregated(call[i])
    /\ \E k \in 1 .. Len(call[i].got) :
         /\ \E x \in 1 .. Len(call[i].got[k]) : call[i].got[k][x].pull_request
         /\ \E x \in 1 .. Len(call[i].got[k]) : ~call[i].got[k][x].pull_request
    /\ Len(RawPullRequests(call[i])) >= 2
    /\ call[i].issues # <<>>

\* C5: with a page-count ceiling N, getIssues makes at most N page requests, however many
\* non-empty pages the tracker has, and then returns the issues gathered so far: the
\* invocation goes on to a normal response. Without a page_limit the ceiling is 2.
Ceiling(req) == IF req.page_limit = None THEN 2 ELSE req.page_limit[1]
Truncated(c) ==
  /\ HasEvent(c, "secret_ok")
  /\ Len(c.got) = Ceiling(c.req)
  /\ \A k \in 1 .. Len(c.got) : c.got[k] # <<>>
  /\ ~HasEvent(c, "failed")
C5_CeilingTruncates ==
  \A i \in Inv :
    History(call[i]) =>
      /\ Len(Events(call[i], "request")) <= Ceiling(call[i].req)
      /\ call[i].pc = "listForRepo" => call[i].page <= Ceiling(call[i].req)
      /\ Truncated(call[i]) =>
           /\ call[i].pc \in {"getIssues", "while", "dates", "for", "save", "done"}
           /\ Len(call[i].issues) = Len(RawIssues(call[i]))
           /\ call[i].pc = "done" => Status(call[i]) = 200
C5_Witness ==
  \E i \in Inv :
    /\ History(call[i])
    /\ call[i].req.page_limit = None
    /\ Truncated(call[i])
    /\ Len(Events(call[i], "request")) = 2
    /\ call[i].pc = "done"
    /\ Status(call[i]) = 200
    /\ call[i].issues # <<>>

\* C7: if a page request fails, on the first page or after any number of pages, no further
\* page is requested, the issues fetched so far are neither aggregated nor returned, no
\* day record is written, and the caller receives the internal-error outcome (500).
C7_PageFailureIsFatal ==
  \A i \in Inv :
    (History(call[i]) /\ HasEvent(call[i], "failed")) =>
      /\ call[i].log[Len(call[i].log)].e = "failed"
      /\ call[i].pc = "done"
      /\ Status(call[i]) = 500
      /\ Body(call[i]) = [message |-> "Internal server error"]
      /\ call[i].dates = EmptyObject
      /\ ~HasEvent(call[i], "write")
      /\ ~HasEvent(call[i], "day")
C7_Witness ==
  \E i \in Inv :
    /\ History(call[i])
    /\ HasEvent(call[i], "failed")
    /\ Len(call[i].got) >= 1
    /\ call[i].issues # <<>>
    /\ call[i].pc = "done"

\* ---- persistence and responses
Stepped(i) == call'[i] # call[i]
Saving(i) == call[i].pc = "save" /\ call'[i].pc = "done"
Batch(c) == {DatesEntries(c.dates)[k] : k \in 1 .. Len(c.dates.keys)}
Conflict(c, store) == \E k \in 1 .. Len(c.dates.keys) : DayExists(store, c.dates.keys[k])
AlreadyExists == [status |-> 400, body |-> [message |-> "Already exists"]]
Ok(c) == c.pc = "done" /\ Status(c) = 200

\* C6: the bulk write of the backfill is all or nothing. A step of a history invocation
\* leaves the datastore as it was or adds the whole batch; when a date of the batch is
\* already stored, the write leaves the datastore as it was and the caller is answered
\* 400 "Already exists".
C6_BulkWriteIsAtomic ==
  [][\A i \in Inv :
       (Stepped(i) /\ History(call[i])) =>
         /\ \/ db' = db
            \/ /\ db' = db \cup Batch(call[i])
               /\ ~Conflict(call[i], db)
         /\ (Saving(i) /\ ~call[i].req.skip_save /\ Conflict(call[i], db)) =>
              /\ db' = db
              /\ call'[i].res = Some(AlreadyExists)]_vars
C6_Witness ==
  \E i \in Inv :
    /\ History(call[i])
    /\ call[i].pc = "done"
    /\ call[i].res = Some(AlreadyExists)
    /\ HasEvent(call[i], "write")
    /\ DayExists(db, isoDate(now))
    /\ ~DayExists(db, StartDay)

\* C8: with skip_save set on an authorized history request, no step of the invocation
\* changes the datastore and no write is issued, and the response is the computed
\* mapping: the one an invocation without the flag returns for the same pages.
C8_SkipSaveWritesNothing ==
  /\ [][\A i \in Inv :
          (Stepped(i) /\ History(call[i]) /\ call[i].req.skip_save) => db' = db]_vars
  /\ [](\A i \in Inv :
          (History(call[i]) /\ call[i].req.skip_save) =>
            /\ ~HasEvent(call[i], "write")
            /\ (call[i].pc = "done" /\ Len(Visited(call[i])) = Len(DaySeq(now))) =>
                 /\ Status(call[i]) = 200
                 /\ Body(call[i]) = call[i].dates
                 /\ \A j \in Inv :
                      (History(call[j]) /\ ~call[j].req.skip_save /\ Ok(call[j])
                       /\ call[j].got = call[i].got) => Body(call[j]) = Body(call[i]))
C8_Witness ==
  \E i, j \in Inv :
    /\ History(call[i]) /\ call[i].req.skip_save /\ Ok(call[i])
    /\ History(call[j]) /\ ~call[j].req.skip_save /\ Ok(call[j])
    /\ call[i].got = call[j].got
    /\ call[i].issues # <<>>
    /\ db = Batch(call[j])

\* C9 as stated: whenever the fetch and the aggregation of an authorized history request
\* complete, the response is the computed mapping, also when the write failed.
Completed(c) == History(c) /\ c.pc = "done" /\ Len(Visited(c)) = Len(DaySeq(now))
C9_AlwaysTheMapping ==
  \A i \in Inv :
    Completed(call[i]) => (Status(call[i]) = 200 /\ Body(call[i]) = call[i].dates)

\* C9: when the fetch and the aggregation of an authorized history request complete, the
\* response is the computed mapping if the write is skipped or succeeds; if a date of the
\* batch is already stored the caller is answered 400 "Already exists" instead.
C9_MappingUnlessWriteFails ==
  [][\A i \in Inv :
       (History(call[i]) /\ Saving(i)) =>
         IF call[i].req.skip_save \/ ~Conflict(call[i], db)
         THEN call'[i].res = Some([status |-> 200, body |-> call[i].dates])
         ELSE call'[i].res = Some(AlreadyExists)]_vars
C9_Witness ==
  \E i, j \in Inv :
    /\ Completed(call[i]) /\ Ok(call[i]) /\ ~call[i].req.skip_save
    /\ Completed(call[j]) /\ ~call[j].req.skip_save /\ Status(call[j]) = 400

\* C10: in both entry points a request that is not a POST is answered 405 and a POST with
\* another secret than the configured one 401, the method being checked first; neither
\* makes a tracker request or a write. Every tracker request and every write of an
\* invocation comes after its passed method check and its passed secret check.
Before(c, a, b) ==
  \A k \in 1 .. Len(c.log) :
    c.log[k].e = b => \E m \in 1 .. k - 1 : c.log[m].e = a
C10_ChecksComeFirst ==
  \A i \in Inv :
    /\ (call[i].pc \notin {"idle", "method"} /\ call[i].req.method # "POST") =>
         /\ call[i].pc = "done"
         /\ Status(call[i]) = 405
         /\ call[i].log = <<>>
    /\ (call[i].pc \notin {"idle", "method", "secret"} /\ call[i].req.method = "POST"
        /\ call[i].req.secret # SECRET) =>
         /\ call[i].pc = "done"
         /\ Status(call[i]) = 401
         /\ call[i].log = <<Ev("method_ok", 0)>>
    /\ Before(call[i], "method_ok", "secret_ok")
    /\ Before(call[i], "secret_ok", "request")
    /\ Before(call[i], "secret_ok", "write")
C10_Witness ==
  \E i, j \in Inv :
    /\ call[i].req.kind = "populate" /\ call[i].pc = "done" /\ Status(call[i]) = 401
    /\ History(call[j]) /\ HasEvent(call[j], "write") /\ HasEvent(call[j], "request")

\* ---- the snapshot
Populate(c) == c.req.kind = "populate"
Passed(c) == HasEvent(c, "secret_ok")
Creating(i) == call[i].pc = "create" /\ call'[i].pc = "done"
Snapshot(c) ==
  [date |-> isoDate(now),
   totalOpened |-> c.data[1].totalOpened, totalClosed |-> c.data[1].totalClosed]

\* C11 as stated: every authorized snapshot invocation attempts exactly one create.
C11_AlwaysOneCreate ==
  \A i \in Inv :
    (Populate(call[i]) /\ Passed(call[i]) /\ call[i].pc = "done") =>
      Len(Events(call[i], "write")) = 1

\* C11: an authorized snapshot invocation whose totals query succeeds attempts exactly one
\* create, of today's date with the tracker's two totals: with no record of today stored
\* the datastore gains that one record, with one stored it stays as it was and the caller
\* is answered 400 "Already exists". If the query fails nothing is created (500).
C11_OneCreateForToday ==
  /\ [][\A i \in Inv :
          (Stepped(i) /\ Populate(call[i])) =>
            IF Creating(i)
            THEN IF DayExists(db, isoDate(now))
                 THEN db' = db /\ call'[i].res = Some(AlreadyExists)
                 ELSE /\ db' = db \cup {Snapshot(call[i])}
                      /\ call'[i].res = Some([status |-> 200, body |-> Snapshot(call[i])])
            ELSE db' = db]_vars
  /\ [](\A i \in Inv :
          (Populate(call[i]) /\ call[i].pc = "done" /\ Passed(call[i])) =>
            IF HasEvent(call[i], "failed")
            THEN ~HasEvent(call[i], "write") /\ Status(call[i]) = 500
            ELSE Len(Events(call[i], "write")) = 1)
C11_Witness ==
  \E i, j \in Inv :
    /\ Populate(call[i]) /\ Ok(call[i])
    /\ call[i].data[1].totalOpened # call[i].data[1].totalClosed
    /\ db = {Body(call[i])}
    /\ Populate(call[j]) /\ call[j].pc = "done" /\ call[j].res = Some(AlreadyExists)

\* C12: whatever the invocations and their interleaving, a record that is stored stays
\* stored with the same totals: a step only adds records of dates that were absent.
C12_RecordsAreOnlyInserted ==
  [][/\ db \subseteq db'
     /\ \A r \in db' \ db : ~DayExists(db, r.date)]_vars
C12_Witness ==
  \E i, j \in Inv :
    /\ Populate(call[i]) /\ Ok(call[i])
    /\ History(call[j]) /\ call[j].pc = "done" /\ call[j].res = Some(AlreadyExists)
    /\ db = {Body(call[i])}
    /\ Total(call[j], isoDate(now)) #
         [totalOpened |-> Body(call[i]).totalOpened, totalClosed |-> Body(call[i]).totalClosed]

\* ---- the aggregator's output
\* C13: in the aggregator's output totalClosed never decreases from a day to the next,
\* whatever the issues.
C13_TotalClosedNeverDecreases ==
  \A i \in Inv :
    call[i].pc \in {"for", "save"} =>
      \A k \in 1 .. call[i].cursor - 2 :
        Total(call[i], call[i].dates.keys[k]).totalClosed
          <= Total(call[i], call[i].dates.keys[k + 1]).totalClosed
C13_Witness ==
  \E i \in Inv :
    /\ Aggregated(call[i])
    /\ Len(call[i].dates.keys) >= 3
    /\ Total(call[i], StartDay).totalClosed = 1
    /\ Total(call[i], StartDay + 1).totalClosed = 1
    /\ Total(call[i], StartDay + 2).totalClosed = 2

\* C14: the output depends on the issues as a multiset and on the range only: the
\* aggregation run again on the same list, or on the list in any other order, gives the
\* totals the handler computed.
Orders(n) == {p \in [1 .. n -> 1 .. n] : \A a, b \in 1 .. n : p[a] = p[b] => a = b}
Reordered(seq, p) == [k \in 1 .. Len(seq) |-> seq[p[k]]]
C14_OrderDoesNotMatter ==
  \A i \in Inv :
    Aggregated(call[i]) =>
      \A p \in Orders(Len(call[i].issues)) :
        Aggregate(Reordered(call[i].issues, p), now) = call[i].dates
C14_Witness ==
  \E i \in Inv :
    /\ Aggregated(call[i])
    /\ Len(call[i].issues) >= 2
    /\ DayOf(call[i].issues[1].created_at) > DayOf(call[i].issues[2].created_at)
    /\ DayOf(call[i].issues[2].created_at) >= StartDay
    /\ call[i].issues[2].closed_at # None

\* C19: if every issue that has a closed_at was created and closed inside the range, and
\* not closed before it was created, then on every day d of the output totalOpened(d) +
\* totalClosed(d) is the number of issues created from the start day through d.
ClosedInsideRange(issues, clock) ==
  \A k \in 1 .. Len(issues) :
    issues[k].closed_at # None =>
      /\ DayOf(issues[k].created_at) \in Range(clock)
      /\ DayOf(issues[k].closed_at[1]) \in Range(clock)
      /\ DayOf(issues[k].closed_at[1]) >= DayOf(issues[k].created_at)
C19_Conservation ==
  \A i \in Inv :
    (Aggregated(call[i]) /\ ClosedInsideRange(call[i].issues, now)) =>
      \A d \in Range(now) :
        Total(call[i], d).totalOpened + Total(call[i], d).totalClosed
          = CreatedIn(call[i].issues, d)
C19_Witness ==
  \E i \in Inv :
    /\ Aggregated(call[i])
    /\ ClosedInsideRange(call[i].issues, now)
    /\ Len(call[i].issues) >= 2
    /\ \E k \in 1 .. Len(call[i].issues) :
         /\ call[i].issues[k].closed_at # None
         /\ DayOf(call[i].issues[k].closed_at[1]) > DayOf(call[i].issues[k].created_at)
    /\ \E k \in 1 .. Len(call[i].issues) :
         /\ call[i].issues[k].closed_at = None
         /\ DayOf(call[i].issues[k].created_at) < StartDay

\* ---- the order of the requests and of the phases
FetchEvents(c) == SelectSeq(c.log, LAMBDA x : x.e \in {"request", "page", "failed"})

\* C15: within one getIssues call the pages requested are 1, 2, 3, ... without gap or
\* repeat; a request is made only when the one before it has been answered, and answered
\* with a page that is not empty; nothing is requested after an empty page.
C15_PagesInSequence ==
  \A i \in Inv :
    History(call[i]) =>
      LET ev == FetchEvents(call[i])
      IN /\ \A k \in 1 .. Len(ev) :
              /\ ev[k].n = (k + 1) \div 2
              /\ IF k % 2 = 1 THEN ev[k].e = "request" ELSE ev[k].e \in {"page", "failed"}
              /\ (k % 2 = 1 /\ k > 1) =>
                   /\ ev[k - 1].e = "page"
                   /\ call[i].got[(k - 1) \div 2] # <<>>
         /\ (Len(ev) % 2 = 1) <=> (call[i].pc = "listForRepo")
         /\ Len(call[i].got) = Len(Events(call[i], "page"))
C15_Witness ==
  \E i \in Inv :
    /\ History(call[i])
    /\ Len(Events(call[i], "request")) = 2
    /\ Len(call[i].got) = 2
    /\ call[i].got[2] = <<>>
    /\ call[i].pc = "done"

\* C17: the fetcher tests the raw page. A page that is not empty and holds pull requests
\* only adds no issue and does not end the fetch: the page number goes up, and while the
\* page number is within the ceiling the next page is requested.
OnlyPullRequests(issuesPage) ==
  /\ issuesPage # <<>>
  /\ \A k \in 1 .. Len(issuesPage) : issuesPage[k].pull_request
C17_StopTestOnRawPage ==
  [][\A i \in Inv :
       (History(call[i]) /\ Stepped(i)) =>
         /\ (call[i].pc = "listForRepo" /\ Len(call'[i].got) = Len(call[i].got) + 1
             /\ OnlyPullRequests(call'[i].got[Len(call'[i].got)])) =>
              /\ call'[i].issues = call[i].issues
              /\ call'[i].pc = "while"
              /\ call'[i].page = call[i].page + 1
         /\ (call[i].pc = "while" /\ call[i].page <= Ceiling(call[i].req)) =>
              /\ call'[i].pc = "listForRepo"
              /\ call'[i].log = Append(call[i].log, Ev("request", call[i].page))]_vars
C17_Witness ==
  \E i \in Inv :
    /\ History(call[i])
    /\ Len(call[i].got) >= 2
    /\ OnlyPullRequests(call[i].got[1])
    /\ call[i].got[2] # <<>>
    /\ Len(call[i].issues) = Len(call[i].got[2])
    /\ call[i].issues # <<>>

\* C18: in a history invocation the fetch, the accumulator pass and the write follow one
\* another: no date is passed over before the last page has been answered, and no write
\* is issued before every date of the range has its totals.
FetchOver(c) ==
  /\ Len(FetchEvents(c)) % 2 = 0
  /\ \/ Len(c.got) = Ceiling(c.req)
     \/ (c.got # <<>> /\ c.got[Len(c.got)] = <<>>)
C18_FetchThenAggregateThenSave ==
  \A i \in Inv :
    History(call[i]) =>
      /\ \A a, b \in 1 .. Len(call[i].log) :
           /\ (call[i].log[a].e \in {"request", "page", "failed"}
               /\ call[i].log[b].e \in {"day", "write"}) => a < b
           /\ (call[i].log[a].e = "day" /\ call[i].log[b].e = "write") => a < b
      /\ HasEvent(call[i], "day") => FetchOver(call[i])
      /\ HasEvent(call[i], "write") =>
           /\ Visited(call[i]) = DaySeq(now)
           /\ call[i].cursor = Len(call[i].dates.keys) + 1
C18_Witness ==
  \E i \in Inv :
    /\ History(call[i])
    /\ HasEvent(call[i], "write")
    /\ Len(Visited(call[i])) >= 2
    /\ Len(Events(call[i], "page")) >= 2
    /\ call[i].issues # <<>>
    /\ db = Batch(call[i])

\* C16: when every request is answered, a call of getIssues ends, by returning or by the
\* rejection of a request, whenever the ceiling is finite or the tracker comes to an empty
\* page; when it returns it has made min(ceiling, index of the first empty page) requests.
FirstEmpty(got) ==
  IF \E k \in 1 .. Len(got) : got[k] = <<>>
  THEN Some(CHOOSE k \in 1 .. Len(got) : got[k] = <<>> /\ \A j \in 1 .. k - 1 : got[j] # <<>>)
  ELSE None
RequestsDue(c) ==
  IF c.hardLimit = None THEN FirstEmpty(c.got)
  ELSE IF FirstEmpty(c.got) = None \/ c.hardLimit[1] < FirstEmpty(c.got)[1]
       THEN c.hardLimit
       ELSE FirstEmpty(c.got)
Returned(c) == c.pc = "dates"
C16_FetchReturns ==
  /\ [](Returned(call[1]) =>
          RequestsDue(call[1]) = Some(Len(Events(call[1], "request"))))
  /\ [](HasEvent(call[1], "failed") => call[1].pc = "done")
  /\ <>(Returned(call[1]) \/ HasEvent(call[1], "failed"))
C16_Witness ==
  /\ Returned(call[1])
  /\ call[1].hardLimit = None
  /\ Len(call[1].got) = MaxUpstream + 1
  /\ FirstEmpty(call[1].got) = Some(MaxUpstream + 1)
  /\ Len(Events(call[1], "request")) = MaxUpstream + 1

\* ---- one backfill
\* an invocation of the backfill received when the datastore already held a record
Later(c) == History(c) /\ ~c.req.skip_save /\ c.seen
Committed(c) == History(c) /\ Ok(c) /\ HasEvent(c, "write")

\* C20 as stated: every later backfill that is not a dry run ends with "Already exists".
C20_LaterBackfillAlwaysConflicts ==
  \A j \in Inv :
    (Later(call[j]) /\ Passed(call[j]) /\ call[j].pc = "done") =>
      call[j].res = Some(AlreadyExists)

\* C20: every stored record is dated inside the range of the backfill. An authorized
\* backfill that is not a dry run and was received when the datastore held a record writes
\* nothing; it is answered 400 "Already exists" when its fetch completes, and 500 when a
\* page request fails. At most one backfill ever commits its records.
C20_AtMostOneBackfill ==
  /\ [][\A j \in Inv :
          (Stepped(j) /\ Later(call[j])) =>
            /\ db' = db
            /\ Saving(j) => call'[j].res = Some(AlreadyExists)
            /\ (Passed(call[j]) /\ call'[j].pc = "done") =>
                 \/ call'[j].res = Some(AlreadyExists)
                 \/ /\ Status(call'[j]) = 500
                    /\ HasEvent(call'[j], "failed")]_vars
  /\ [](/\ \A r \in db : r.date \in Range(now)
        /\ Cardinality({i \in Inv : Committed(call[i])}) <= 1)
C20_Witness ==
  \E i, j \in Inv :
    /\ Committed(call[i])
    /\ db = Batch(call[i])
    /\ Later(call[j])
    /\ call[j].pc = "done"
    /\ HasEvent(call[j], "write")
    /\ call[j].res = Some(AlreadyExists)

====
